---- MODULE Spec2Model ----
(***************************************************************************)
(* inkWall-backend: the wallpaper ingestion pipeline.                      *)
(*                                                                         *)
(* The catalog (the Wallpaper and Category collections), the two provider  *)
(* adapters with their normalizers, the ingestion jobs of                  *)
(* jobs/fetchWallpapers.js, the cron job of services/cronJobs.js with its  *)
(* page cursor, and the download route.  Every await of the code is one    *)
(* step of the model, so that jobs and requests interleave as they do on   *)
(* the event loop.                                                         *)
(***************************************************************************)
EXTENDS Integers, Sequences, FiniteSets, TLC

(***************************************************************************)
(* Bounds of the model.                                                    *)
(***************************************************************************)
MaxCycles == 2
MaxExtId == 2
MaxRequests == 2
ServerRequests == 1
MaxManual == 1
MaxRuns == 60
NumCategories == 3
ServerCategories == 2
ServerJobs == 1
ScenarioPhotos == 5
MaxPerPage == 81
MaxPage == 2

(***************************************************************************)
(* Program constants.                                                      *)
(***************************************************************************)
PexelsWindow == 10
UnsplashWindow == 5
FirstPage == 1
UnsplashMaxPerPage == 30
PexelsMaxPerPage == 80
JobPerPage == 20

Sources == {"unsplash", "pexels"}
Null == "<null>"

Cycles == 1..MaxCycles
Requests == 1..MaxRequests

(***************************************************************************)
(* JavaScript's  a || b : the first operand unless it is falsy.            *)
(***************************************************************************)
Falsy(v) == v \in {Null, ""}
OrElse(a, b) == IF Falsy(a) THEN b ELSE a

RECURSIVE SumSeq(_)
SumSeq(s) == IF s = <<>> THEN 0 ELSE Head(s) + SumSeq(Tail(s))

(***************************************************************************)
(* Categories.  The default categories in the order initializeDatabase     *)
(* inserts them; the model's database holds a subset of the first          *)
(* NumCategories of them.  NameRank is the position of a name in the       *)
(* ascending string order Category.find().sort({name: 1}) uses.            *)
(***************************************************************************)
defaultCategories ==
    << [slug |-> "nature",   name |-> "Nature",
        search_query |-> "nature landscape mountains forest"],
       [slug |-> "wildlife", name |-> "Wildlife",
        search_query |-> "wildlife animals lion tiger"],
       [slug |-> "abstract", name |-> "Abstract",
        search_query |-> "abstract art patterns colorful"],
       [slug |-> "anime",    name |-> "Anime & Cartoons",
        search_query |-> "anime cartoon illustration art"],
       [slug |-> "city",     name |-> "City & Urban",
        search_query |-> "city urban architecture skyline"],
       [slug |-> "space",    name |-> "Space & Galaxy",
        search_query |-> "space galaxy stars nebula cosmos"],
       [slug |-> "minimal",  name |-> "Minimal",
        search_query |-> "minimal aesthetic simple clean"],
       [slug |-> "gaming",   name |-> "Gaming",
        search_query |-> "gaming esports neon cyberpunk"] >>

NamesAscending ==
    << "Abstract", "Anime & Cartoons", "City & Urban", "Gaming",
       "Minimal", "Nature", "Space & Galaxy", "Wildlife" >>

NameRank(name) == CHOOSE i \in 1..Len(NamesAscending) : NamesAscending[i] = name

CategoryUniverse ==
    {defaultCategories[i] : i \in 1..NumCategories}

Slugs == {d.slug : d \in CategoryUniverse}

NameOf(slug) == (CHOOSE d \in CategoryUniverse : d.slug = slug).name

\* category.search_query
QueryOf(slug) == (CHOOSE d \in CategoryUniverse : d.slug = slug).search_query

InsertionRank(slug) ==
    CHOOSE i \in 1..Len(defaultCategories) : defaultCategories[i].slug = slug

(***************************************************************************)
(* Category.find().sort({ name: 1 }): the slugs of S, by name ascending.   *)
(***************************************************************************)
RankByName(slug) == NameRank(NameOf(slug))

\* a sort by name, descending
RECURSIVE SortByNameDescending(_)
SortByNameDescending(S) ==
    IF S = {} THEN <<>>
    ELSE LET first == CHOOSE x \in S : \A y \in S : RankByName(x) >= RankByName(y)
         IN  <<first>> \o SortByNameDescending(S \ {first})

RECURSIVE SortByName(_)
SortByName(S) ==
    IF S = {} THEN <<>>
    ELSE LET first == CHOOSE x \in S : \A y \in S : RankByName(x) <= RankByName(y)
         IN  <<first>> \o SortByName(S \ {first})

(***************************************************************************)
(* Category.find(): the slugs of S in the collection's natural order, the  *)
(* order of insertion.                                                     *)
(***************************************************************************)
RECURSIVE NaturalOrder(_)
NaturalOrder(S) ==
    IF S = {} THEN <<>>
    ELSE LET first == CHOOSE x \in S : \A y \in S : InsertionRank(x) <= InsertionRank(y)
         IN  <<first>> \o NaturalOrder(S \ {first})

(***************************************************************************)
(* The providers.  An upstream photo is modelled by its provider-native    *)
(* record: Unsplash ids are strings, Pexels ids are numbers.  A response   *)
(* is a failure (transport error, non-2xx) or a list of native records.    *)
(***************************************************************************)
RawUnsplash(k, t) ==
    [id |-> ToString(k), description |-> t, alt_description |-> Null,
     regular |-> "img-" \o t]

RawPexels(k, t) ==
    [id |-> k, alt |-> t, large |-> "img-" \o t]

Raw(source, k, t) ==
    IF source = "unsplash" THEN RawUnsplash(k, t) ELSE RawPexels(k, t)

\* a photo the provider sends without its image URLs (urls / src absent)
RawNoUrl(source, k, t) ==
    IF source = "unsplash" THEN [RawUnsplash(k, t) EXCEPT !.regular = Null]
    ELSE [RawPexels(k, t) EXCEPT !.large = Null]

Failure == [ok |-> FALSE, photos |-> <<>>]
Success(photos) == [ok |-> TRUE, photos |-> photos]

\* n photos with the ids lo, lo+1, ... and the title t
Photos(source, lo, n, t) == [i \in 1..n |-> Raw(source, lo + i - 1, t)]

(***************************************************************************)
(* normalizePhoto of services/unsplash.js.  is_featured: 0 is stored as    *)
(* the Boolean false by the schema's cast.                                 *)
(***************************************************************************)
\* an Unsplash normalizer that takes the provider's id as the record's id
normalizePhotoUnsplashBareId(photo, category) ==
    [id |-> photo.id,
     source |-> "unsplash",
     external_id |-> photo.id,
     title |-> OrElse(OrElse(photo.description, photo.alt_description), "Untitled"),
     url_regular |-> photo.regular,
     category |-> category,
     is_featured |-> FALSE]

normalizePhotoUnsplash(photo, category) ==
    [id |-> "unsplash_" \o photo.id,
     source |-> "unsplash",
     external_id |-> photo.id,
     title |-> OrElse(OrElse(photo.description, photo.alt_description), "Untitled"),
     url_regular |-> photo.regular,
     category |-> category,
     is_featured |-> FALSE]

\* the Pexels normalizer with the source of the Unsplash one
normalizePhotoPexelsMislabelled(photo, category) ==
    [id |-> "pexels_" \o ToString(photo.id),
     source |-> "unsplash",
     external_id |-> ToString(photo.id),
     title |-> OrElse(photo.alt, "Untitled"),
     url_regular |-> photo.large,
     category |-> category,
     is_featured |-> FALSE]

(***************************************************************************)
(* normalizePhoto of services/pexels.js: the numeric id becomes a string.  *)
(***************************************************************************)
normalizePhotoPexels(photo, category) ==
    [id |-> "pexels_" \o ToString(photo.id),
     source |-> "pexels",
     external_id |-> ToString(photo.id),
     title |-> OrElse(photo.alt, "Untitled"),
     url_regular |-> photo.large,
     category |-> category,
     is_featured |-> FALSE]

normalizePhoto(source, photo, category) ==
    IF source = "unsplash" THEN normalizePhotoUnsplash(photo, category)
    ELSE normalizePhotoPexels(photo, category)

\* photos.map(photo => normalizePhoto(photo, category))
searchPhotosResult(source, photos, category) ==
    [i \in 1..Len(photos) |-> normalizePhoto(source, photos[i], category)]

(***************************************************************************)
(* The Wallpaper collection.  db is a set of documents.                    *)
(***************************************************************************)
\* a filter that finds nothing
wallpaperExistsNever(db, externalId, source) == FALSE

\* wallpaperExists: countDocuments({external_id, source}) > 0
wallpaperExists(db, externalId, source) ==
    Cardinality({r \in db : r.external_id = externalId /\ r.source = source}) > 0

\* a count that forgets its filter
countDocumentsUnfiltered(db, slug) == Cardinality(db)

\* countDocuments({ category: slug })
countDocuments(db, slug) == Cardinality({r \in db : r.category = slug})

\* getWallpaperById: the documents with this _id
findById(db, id) == {r \in db : r._id = id}

\* insertWallpapers' map: id becomes _id
ToDoc(w) ==
    [f \in (DOMAIN w \ {"id"}) \cup {"_id"} |-> IF f = "_id" THEN w.id ELSE w[f]]

\* a collection without the unique index
UniqueIndexMissing(db, doc) == FALSE

\* the unique index on (external_id, source): writing doc would make a
\* second document carry doc's pair
UniqueIndexClash(db, doc) ==
    \E r \in db : /\ r._id # doc._id
                  /\ r.external_id = doc.external_id
                  /\ r.source = doc.source

\* a replacement of the stored document: the fields doc lacks fall back to
\* their defaults
ReplaceFields(r, doc) ==
    [f \in DOMAIN r |-> IF f \in DOMAIN doc THEN doc[f] ELSE 0]

\* { $set: doc } on a stored document: the fields of doc, the others kept
SetFields(r, doc) ==
    [f \in DOMAIN r |-> IF f \in DOMAIN doc THEN doc[f] ELSE r[f]]

\* the document an upsert inserts: doc and the schema's defaults
InsertedDoc(doc) ==
    [f \in DOMAIN doc \cup {"downloads"} |-> IF f \in DOMAIN doc THEN doc[f] ELSE 0]

\* a write that leaves the written document alone in the collection
UpsertDocsTruncating(db, doc) == {InsertedDoc(doc)}

\* the documents updateOne({_id: doc._id}, {$set: doc}, {upsert: true}) leaves
UpsertDocs(db, doc) ==
    IF findById(db, doc._id) = {}
    THEN db \cup {InsertedDoc(doc)}
    ELSE (db \ findById(db, doc._id))
             \cup {SetFields(r, doc) : r \in findById(db, doc._id)}

\* one upsert: a duplicate key error leaves the collection as it was
UpsertOne(db, doc) ==
    IF UniqueIndexClash(db, doc)
    THEN [ok |-> FALSE, db |-> db]
    ELSE [ok |-> TRUE, db |-> UpsertDocs(db, doc)]

\* an increment of every document
IncDownloadsAll(db, id) ==
    {[r EXCEPT !.downloads = @ + 1] : r \in db}

\* findByIdAndUpdate(id, { $inc: { downloads: 1 } })
IncDownloads(db, id) ==
    {IF r._id = id THEN [r EXCEPT !.downloads = @ + 1] ELSE r : r \in db}

(***************************************************************************)
(* The page cursor of cronJobs.js: (current % window) + 1.                 *)
(***************************************************************************)
\* the increment taken before the remainder
AdvancePageWrapped(current, window) == (current + 1) % window

AdvancePage(current, window) == (current % window) + 1

VARIABLES
    catalog,        \* the Wallpaper collection: a set of documents
    categoryDocs,   \* the Category collection: slug -> wallpaper_count
    currentPage,    \* cronJobs.js: the page cursor per provider
    upstream,       \* what the providers answer, per provider and category
    upstreamFixed,  \* TRUE: the providers answer as upstream says; FALSE: anything
    pc,             \* per job: the await it is suspended at
    kind,           \* per job: "all" (fetchAllCategoryWallpapers) or "featured"
    cats,           \* per job: const categories
    idx,            \* per job: the position of the for loop in categories
    wallpapers,     \* per job: let wallpapers / const candidates
    newWallpapers,  \* per job: const newWallpapers
    pos,            \* per job: the position in wallpapers, then in bulkOps
    totalNew,       \* per job: let totalNew, and the value returned
    countCats,      \* per job, updateCategoryCounts: const categories
    countIdx,       \* per job, updateCategoryCounts: the position in categories
    countVal,       \* per job, updateCategoryCounts: const count
    outcome,        \* per job: the provider calls and the result of each category
    seen,           \* per job: the catalog as it was when the provider answered
    started,        \* the number of jobs started
    dirty,          \* per job: another writer wrote during its updateCategoryCounts
    snap,           \* per job: the collections as they were when it returned
    atStart,        \* per job: the catalog as it was when the job was started
    overwrote,      \* an upsert has updated a document that had been downloaded
    req,            \* the download requests
    manual,         \* the number of insertWallpaper calls made
    cron,           \* the tick handler of startCronJobs and its runFetchJob:
                    \* where it is, the runs made, the pages asked of each provider
    host,           \* index.js: the database connection and the HTTP listener
    sent            \* the request the last direct adapter call sent upstream

storeVars == <<catalog, categoryDocs, overwrote>>
envVars == <<upstream, upstreamFixed, host, sent>>
loopVars == <<cats, idx, wallpapers, newWallpapers, pos, totalNew, outcome, seen>>
countVars == <<countCats, countIdx, countVal>>
jobVars == <<pc, kind, loopVars, countVars, started, dirty, snap, atStart>>
vars == <<storeVars, currentPage, envVars, jobVars, req, manual, cron>>

(***************************************************************************)
(* What a provider may answer to a call made without a fixed upstream.     *)
(***************************************************************************)
AnyResponses(source) ==
    {Failure} \cup {Success(Photos(source, 1, n, "t1")) : n \in 1..MaxExtId}

Answers(source, slug) ==
    IF upstreamFixed THEN {upstream[source][slug]} ELSE AnyResponses(source)

\* the params of the GET a provider adapter sends
RequestParams(query, page, perPage) ==
    [query |-> query, page |-> page, per_page |-> perPage]

NoRequest == [source |-> "", params |-> RequestParams("", 0, 0)]

\* the process after startup: connected, categories seeded, listening
ServerUp == host = [db |-> "ready", listening |-> TRUE]

NoOutcome ==
    [slug |-> "", primary |-> "none", secondary |-> "none", fresh |-> 0, count |-> -1,
     primaryReq |-> RequestParams("", 0, 0), secondaryReq |-> RequestParams("", 0, 0)]

\* unsplash.searchPhotos(category.search_query, category.slug, 1, perPage)
PrimaryRequest(slug) == RequestParams(QueryOf(slug), FirstPage, JobPerPage)

\* a fallback that searches for the slug
FallbackRequestBySlug(slug) == RequestParams(slug, FirstPage, JobPerPage)

\* pexels.searchPhotos(category.search_query, category.slug, 1, perPage)
FallbackRequest(slug) == RequestParams(QueryOf(slug), FirstPage, JobPerPage)

IdleJobs ==
    /\ pc = [c \in Cycles |-> "idle"]
    /\ kind = [c \in Cycles |-> "all"]
    /\ cats = [c \in Cycles |-> <<>>]
    /\ idx = [c \in Cycles |-> 0]
    /\ wallpapers = [c \in Cycles |-> <<>>]
    /\ newWallpapers = [c \in Cycles |-> <<>>]
    /\ pos = [c \in Cycles |-> 0]
    /\ totalNew = [c \in Cycles |-> 0]
    /\ countCats = [c \in Cycles |-> <<>>]
    /\ countIdx = [c \in Cycles |-> 0]
    /\ countVal = [c \in Cycles |-> 0]
    /\ outcome = [c \in Cycles |-> <<>>]
    /\ seen = [c \in Cycles |-> {}]
    /\ started = 0
    /\ dirty = [c \in Cycles |-> FALSE]
    /\ snap = [c \in Cycles |-> [catalog |-> {}, categoryDocs |-> <<>>]]
    /\ atStart = [c \in Cycles |-> {}]

IdleRest ==
    /\ currentPage = [unsplash |-> FirstPage, pexels |-> FirstPage]
    /\ overwrote = FALSE
    /\ req = [r \in Requests |-> [pc |-> "idle", id |-> "", source |-> "", status |-> 0,
                                   before |-> 0, tracked |-> "none"]]
    /\ manual = 0
    /\ cron = [pc |-> "idle", runs |-> 0, asked |-> [s \in Sources |-> {}]]
    /\ sent = NoRequest

\* every other job that is inside updateCategoryCounts has been written under
MarkDirty(c) ==
    dirty' = [d \in Cycles |->
                 IF d # c /\ pc[d] \in {"countsCount", "countsUpdate", "return"}
                 THEN TRUE ELSE dirty[d]]

(***************************************************************************)
(* The ingestion jobs of jobs/fetchWallpapers.js.  A job is suspended at   *)
(* pc[c]; JobStep resumes it up to its next await.                         *)
(***************************************************************************)
JobStep(c, nextPc, nextIdx, nextPos, nextTotal, nextOutcome) ==
    /\ pc' = [pc EXCEPT ![c] = nextPc]
    /\ idx' = [idx EXCEPT ![c] = nextIdx]
    /\ pos' = [pos EXCEPT ![c] = nextPos]
    /\ totalNew' = [totalNew EXCEPT ![c] = nextTotal]
    /\ outcome' = [outcome EXCEPT ![c] = nextOutcome]

SetLast(out, field, value) == [out EXCEPT ![Len(out)][field] = value]

\* the for loop of fetchAllCategoryWallpapers after category idx[c]
AfterCategory(c) ==
    IF idx[c] + 1 > Len(cats[c]) THEN "countsFind" ELSE "primary"

\* fetchCategoryWallpapers returns n (then totalNew += count and the pacing
\* delay); fetchFeaturedWallpapers returns n
Returned(c, n, out) ==
    IF kind[c] = "all"
    THEN JobStep(c, "delay", idx[c], 0, totalNew[c] + n, SetLast(out, "count", n))
    ELSE JobStep(c, "return", idx[c], 0, n, out)

\* insertWallpapers rejects: fetchAllCategoryWallpapers' catch goes on with
\* the next category, fetchFeaturedWallpapers' catch returns 0
Thrown(c) ==
    IF kind[c] = "all"
    THEN JobStep(c, AfterCategory(c), idx[c] + 1, 0, totalNew[c], outcome[c])
    ELSE JobStep(c, "return", idx[c], 0, 0, outcome[c])

\* the records of got whose (external_id, source) no document of db carries
Fresh(db, got) ==
    {i \in 1..Len(got) :
        ~\E d \in db : d.external_id = got[i].external_id /\ d.source = got[i].source}

\* a provider call resolved with the records got
Fetched(c, got, out) ==
    /\ wallpapers' = [wallpapers EXCEPT ![c] = got]
    /\ newWallpapers' = [newWallpapers EXCEPT ![c] = <<>>]
    /\ seen' = [seen EXCEPT ![c] = catalog]
    /\ LET noted == IF out = <<>> THEN out
                    ELSE SetLast(out, "fresh", Cardinality(Fresh(catalog, got)))
       IN  IF got = <<>>
           THEN Returned(c, 0, noted)
           ELSE JobStep(c, "exists", idx[c], 1, totalNew[c], noted)

\* the scheduled tick of index.js: fetchAllCategoryWallpapers() is called
Tick(c) ==
    /\ pc[c] = "idle"
    /\ c = started + 1
    /\ pc' = [pc EXCEPT ![c] = "getCategories"]
    /\ kind' = [kind EXCEPT ![c] = "all"]
    /\ started' = started + 1
    /\ atStart' = [atStart EXCEPT ![c] = catalog]
    /\ UNCHANGED <<storeVars, currentPage, envVars, loopVars, countVars,
                   dirty, snap, req, manual, cron>>

\* fetchFeaturedWallpapers() is called
StartFeatured(c) ==
    /\ pc[c] = "idle"
    /\ c = started + 1
    /\ pc' = [pc EXCEPT ![c] = "popular"]
    /\ kind' = [kind EXCEPT ![c] = "featured"]
    /\ started' = started + 1
    /\ atStart' = [atStart EXCEPT ![c] = catalog]
    /\ UNCHANGED <<storeVars, currentPage, envVars, loopVars, countVars,
                   dirty, snap, req, manual, cron>>

\* const categories = await getCategories(); let totalNew = 0
GetCategories(c) ==
    /\ pc[c] = "getCategories"
    /\ cats' = [cats EXCEPT ![c] = SortByName(DOMAIN categoryDocs)]
    /\ JobStep(c, IF DOMAIN categoryDocs = {} THEN "countsFind" ELSE "primary",
               1, 0, 0, <<>>)
    /\ UNCHANGED <<storeVars, currentPage, envVars, kind, wallpapers, seen,
                   newWallpapers, countVars, started, dirty, snap, atStart, req, manual, cron>>

\* await unsplash.searchPhotos(category.search_query, category.slug, 1, perPage)
Primary(c) ==
    /\ pc[c] = "primary"
    /\ kind[c] = "all"
    /\ \E resp \in Answers("unsplash", cats[c][idx[c]]) :
          LET slug == cats[c][idx[c]]
              out(p) == Append(outcome[c], [NoOutcome EXCEPT
                                               !.slug = slug,
                                               !.primary = p,
                                               !.primaryReq = PrimaryRequest(slug)])
          IN  IF resp.ok
              THEN Fetched(c, searchPhotosResult("unsplash", resp.photos, slug),
                           out("ok"))
              ELSE /\ JobStep(c, "secondary", idx[c], 0, totalNew[c], out("failed"))
                   /\ UNCHANGED <<wallpapers, newWallpapers, seen>>
    /\ UNCHANGED <<storeVars, currentPage, envVars, kind, cats, countVars,
                   started, dirty, snap, atStart, req, manual, cron>>

\* a fallback whose failure ends the loop over the categories
SecondaryBreaks(c) ==
    /\ pc[c] = "secondary"
    /\ \E resp \in Answers("pexels", cats[c][idx[c]]) :
          LET slug == cats[c][idx[c]]
              called == SetLast(outcome[c], "secondaryReq", FallbackRequest(slug))
          IN  IF resp.ok
              THEN Fetched(c, searchPhotosResult("pexels", resp.photos, slug),
                           SetLast(called, "secondary", "ok"))
              ELSE /\ JobStep(c, "countsFind", idx[c], 0, totalNew[c],
                              SetLast(called, "secondary", "failed"))
                   /\ UNCHANGED <<wallpapers, newWallpapers, seen>>
    /\ UNCHANGED <<storeVars, currentPage, envVars, kind, cats, countVars,
                   started, dirty, snap, atStart, req, manual, cron>>

\* the fallback: await pexels.searchPhotos(..., 1, perPage); both failed: return 0
Secondary(c) ==
    /\ pc[c] = "secondary"
    /\ \E resp \in Answers("pexels", cats[c][idx[c]]) :
          LET slug == cats[c][idx[c]]
              called == SetLast(outcome[c], "secondaryReq", FallbackRequest(slug))
          IN  IF resp.ok
              THEN Fetched(c, searchPhotosResult("pexels", resp.photos, slug),
                           SetLast(called, "secondary", "ok"))
              ELSE /\ Returned(c, 0, SetLast(called, "secondary", "failed"))
                   /\ UNCHANGED <<wallpapers, newWallpapers, seen>>
    /\ UNCHANGED <<storeVars, currentPage, envVars, kind, cats, countVars,
                   started, dirty, snap, atStart, req, manual, cron>>

\* await unsplash.getPopularPhotos('featured', 1, 30), marked as featured;
\* a failure is caught and 0 returned
Popular(c) ==
    /\ pc[c] = "popular"
    /\ \E resp \in Answers("unsplash", "featured") :
          LET got == searchPhotosResult("unsplash", resp.photos, "featured")
              candidates == [i \in 1..Len(got) |-> [got[i] EXCEPT !.is_featured = TRUE]]
          IN  IF resp.ok
              THEN Fetched(c, candidates, outcome[c])
              ELSE /\ Returned(c, 0, outcome[c])
                   /\ UNCHANGED <<wallpapers, newWallpapers, seen>>
    /\ UNCHANGED <<storeVars, currentPage, envVars, kind, cats, countVars,
                   started, dirty, snap, atStart, req, manual, cron>>

\* const exists = await wallpaperExists(w.external_id, w.source), for the
\* record at pos; after the last one insertWallpapers is called, or 0 returned
Exists(c) ==
    /\ pc[c] = "exists"
    /\ LET w == wallpapers[c][pos[c]]
           kept == IF wallpaperExists(catalog, w.external_id, w.source)
                   THEN newWallpapers[c]
                   ELSE Append(newWallpapers[c], w)
       IN  /\ newWallpapers' = [newWallpapers EXCEPT ![c] = kept]
           /\ IF pos[c] < Len(wallpapers[c])
              THEN JobStep(c, "exists", idx[c], pos[c] + 1, totalNew[c], outcome[c])
              ELSE IF kept # <<>>
                   THEN JobStep(c, "bulkWrite", idx[c], 1, totalNew[c], outcome[c])
                   ELSE Returned(c, 0, outcome[c])
    /\ UNCHANGED <<storeVars, currentPage, envVars, kind, cats, wallpapers, seen,
                   countVars, started, dirty, snap, atStart, req, manual, cron>>

\* writing doc updates a stored document whose downloads are not 0
Downloaded(db, doc) ==
    /\ ~UniqueIndexClash(db, doc)
    /\ \E d \in findById(db, doc._id) : d.downloads > 0

\* await Wallpaper.bulkWrite(bulkOps): the operation at pos is applied; the
\* write is ordered, so the first error ends it and insertWallpapers rejects
BulkWrite(c) ==
    /\ pc[c] = "bulkWrite"
    /\ LET res == UpsertOne(catalog, ToDoc(newWallpapers[c][pos[c]]))
       IN  IF res.ok
           THEN /\ catalog' = res.db
                /\ overwrote' = (overwrote \/ Downloaded(catalog, ToDoc(newWallpapers[c][pos[c]])))
                /\ MarkDirty(c)
                /\ IF pos[c] < Len(newWallpapers[c])
                   THEN JobStep(c, "bulkWrite", idx[c], pos[c] + 1, totalNew[c],
                                outcome[c])
                   ELSE Returned(c, Len(newWallpapers[c]), outcome[c])
           ELSE /\ Thrown(c)
                /\ UNCHANGED <<catalog, overwrote, dirty>>
    /\ UNCHANGED <<categoryDocs, currentPage, envVars, kind, cats, wallpapers, seen,
                   newWallpapers, countVars, started, snap, atStart, req, manual, cron>>

\* await new Promise(resolve => setTimeout(resolve, 1000)), then the next
\* category or updateCategoryCounts
Delay(c) ==
    /\ pc[c] = "delay"
    /\ JobStep(c, AfterCategory(c), idx[c] + 1, 0, totalNew[c], outcome[c])
    /\ UNCHANGED <<storeVars, currentPage, envVars, kind, cats, wallpapers, seen,
                   newWallpapers, countVars, started, dirty, snap, atStart, req, manual, cron>>

\* updateCategoryCounts: const categories = await Category.find()
CountsFind(c) ==
    /\ pc[c] = "countsFind"
    /\ countCats' = [countCats EXCEPT ![c] = NaturalOrder(DOMAIN categoryDocs)]
    /\ countIdx' = [countIdx EXCEPT ![c] = 1]
    /\ dirty' = [dirty EXCEPT ![c] = FALSE]
    /\ pc' = [pc EXCEPT ![c] = IF DOMAIN categoryDocs = {} THEN "return"
                                 ELSE "countsCount"]
    /\ UNCHANGED <<storeVars, currentPage, envVars, kind, loopVars, countVal,
                   started, snap, atStart, req, manual, cron>>

\* a count that is not taken again: the stored wallpaper_count is reused
CountsCountCached(c) ==
    /\ pc[c] = "countsCount"
    /\ countVal' = [countVal EXCEPT ![c] = categoryDocs[countCats[c][countIdx[c]]]]
    /\ pc' = [pc EXCEPT ![c] = "countsUpdate"]
    /\ UNCHANGED <<storeVars, currentPage, envVars, kind, loopVars, countCats,
                   countIdx, started, dirty, snap, atStart, req, manual, cron>>

\* const count = await Wallpaper.countDocuments({ category: cat.slug })
CountsCount(c) ==
    /\ pc[c] = "countsCount"
    /\ countVal' = [countVal EXCEPT ![c] =
                       countDocuments(catalog, countCats[c][countIdx[c]])]
    /\ pc' = [pc EXCEPT ![c] = "countsUpdate"]
    /\ UNCHANGED <<storeVars, currentPage, envVars, kind, loopVars, countCats,
                   countIdx, started, dirty, snap, atStart, req, manual, cron>>

\* an update that adds the count to the stored one
CountsUpdateAdds(c) ==
    /\ pc[c] = "countsUpdate"
    /\ categoryDocs' = [categoryDocs EXCEPT ![countCats[c][countIdx[c]]] = @ + countVal[c]]
    /\ MarkDirty(c)
    /\ countIdx' = [countIdx EXCEPT ![c] = @ + 1]
    /\ pc' = [pc EXCEPT ![c] = IF countIdx[c] < Len(countCats[c]) THEN "countsCount"
                                 ELSE "return"]
    /\ UNCHANGED <<catalog, overwrote, currentPage, envVars, kind, loopVars,
                   countCats, countVal, started, snap, atStart, req, manual, cron>>

\* await Category.updateOne({ _id: cat._id }, { wallpaper_count: count })
CountsUpdate(c) ==
    /\ pc[c] = "countsUpdate"
    /\ categoryDocs' = [categoryDocs EXCEPT ![countCats[c][countIdx[c]]] = countVal[c]]
    /\ MarkDirty(c)
    /\ countIdx' = [countIdx EXCEPT ![c] = @ + 1]
    /\ pc' = [pc EXCEPT ![c] = IF countIdx[c] < Len(countCats[c]) THEN "countsCount"
                                 ELSE "return"]
    /\ UNCHANGED <<catalog, overwrote, currentPage, envVars, kind, loopVars,
                   countCats, countVal, started, snap, atStart, req, manual, cron>>

\* the job's promise resolves with totalNew
Return(c) ==
    /\ pc[c] = "return"
    /\ pc' = [pc EXCEPT ![c] = "done"]
    /\ snap' = [snap EXCEPT ![c] = [catalog |-> catalog, categoryDocs |-> categoryDocs]]
    /\ UNCHANGED <<storeVars, currentPage, envVars, kind, loopVars, countVars,
                   started, dirty, atStart, req, manual, cron>>

(***************************************************************************)
(* A store call that raises (the database unreachable).  Where the raising *)
(* await stands decides who sees the error: getCategories and              *)
(* updateCategoryCounts are awaited outside every try, so the job's        *)
(* promise rejects ("rejected"); wallpaperExists and insertWallpapers are  *)
(* awaited inside fetchCategoryWallpapers, which fetchAllCategoryWallpapers*)
(* calls inside the try of its for loop.                                   *)
(***************************************************************************)
\* await getCategories() rejects
GetCategoriesRaises(c) ==
    /\ pc[c] = "getCategories"
    /\ pc' = [pc EXCEPT ![c] = "rejected"]
    /\ UNCHANGED <<storeVars, currentPage, envVars, kind, loopVars, countVars,
                   started, dirty, snap, atStart, req, manual, cron>>

\* await wallpaperExists(...) rejects: the catch of the caller takes over
ExistsRaises(c) ==
    /\ pc[c] = "exists"
    /\ Thrown(c)
    /\ UNCHANGED <<storeVars, currentPage, envVars, kind, cats, wallpapers, seen,
                   newWallpapers, countVars, started, dirty, snap, atStart, req, manual, cron>>

\* await Wallpaper.bulkWrite(bulkOps) rejects before the operation at pos
BulkWriteRaises(c) ==
    /\ pc[c] = "bulkWrite"
    /\ Thrown(c)
    /\ UNCHANGED <<storeVars, currentPage, envVars, kind, cats, wallpapers, seen,
                   newWallpapers, countVars, started, dirty, snap, atStart, req, manual, cron>>

\* an await of updateCategoryCounts rejects
CountsRaises(c) ==
    /\ pc[c] \in {"countsFind", "countsCount", "countsUpdate"}
    /\ pc' = [pc EXCEPT ![c] = "rejected"]
    /\ UNCHANGED <<storeVars, currentPage, envVars, kind, loopVars, countVars,
                   started, dirty, snap, atStart, req, manual, cron>>

(***************************************************************************)
(* The tick handler of index.js awaits fetchAllCategoryWallpapers() with   *)
(* no try/catch: when the job rejects, the handler's own promise rejects.  *)
(* What becomes of that rejection is up to the scheduler library and the   *)
(* runtime: the library observes it and the task has failed, or nobody     *)
(* does and the unhandled rejection ends the process.                      *)
(***************************************************************************)
TaskFailed(c) ==
    /\ pc[c] = "rejected"
    /\ pc' = [pc EXCEPT ![c] = "failed"]
    /\ UNCHANGED <<storeVars, currentPage, envVars, kind, loopVars, countVars,
                   started, dirty, snap, atStart, req, manual, cron>>

UnhandledRejection(c) ==
    /\ pc[c] = "rejected"
    /\ pc' = [pc EXCEPT ![c] = "exit"]
    /\ UNCHANGED <<storeVars, currentPage, envVars, kind, loopVars, countVars,
                   started, dirty, snap, atStart, req, manual, cron>>

(***************************************************************************)
(* A provider call that never settles.  The axios clients are created      *)
(* without a timeout, so nothing rejects the pending call: the job stays   *)
(* suspended at this await.                                                *)
(***************************************************************************)
ProviderHangs(c) ==
    /\ pc[c] \in {"primary", "secondary"}
    /\ pc' = [pc EXCEPT ![c] = "pending"]
    /\ UNCHANGED <<storeVars, currentPage, envVars, kind, loopVars, countVars,
                   started, dirty, snap, atStart, req, manual, cron>>

(***************************************************************************)
(* POST /api/wallpapers/:id/download of routes/wallpapers.js.              *)
(***************************************************************************)
DownloadIds == {r._id : r \in catalog} \cup {"missing"}

\* a request arrives
DownloadRequest(r, id) ==
    /\ req[r].pc = "idle"
    /\ req' = [req EXCEPT ![r] = [@ EXCEPT !.pc = "getById", !.id = id]]
    /\ UNCHANGED <<storeVars, currentPage, envVars, jobVars, manual, cron>>

\* const wallpaper = await getWallpaperById(id); 404 when there is none
DownloadGetById(r) ==
    /\ req[r].pc = "getById"
    /\ IF findById(catalog, req[r].id) = {}
       THEN req' = [req EXCEPT ![r] = [@ EXCEPT !.pc = "done", !.status = 404]]
       ELSE LET wallpaper == CHOOSE d \in findById(catalog, req[r].id) : TRUE
            IN  req' = [req EXCEPT ![r] = [@ EXCEPT !.pc = "increment",
                                                    !.source = wallpaper.source]]
    /\ UNCHANGED <<storeVars, currentPage, envVars, jobVars, manual, cron>>

\* await incrementDownloadCount(id); then trackDownload for an Unsplash record
incrementDownloadCount(r) ==
    /\ req[r].pc = "increment"
    /\ catalog' = IncDownloads(catalog, req[r].id)
    /\ MarkDirty(0)
    /\ LET before == (CHOOSE d \in findById(catalog, req[r].id) : TRUE).downloads
       IN  IF req[r].source = "unsplash"
           THEN req' = [req EXCEPT ![r] = [@ EXCEPT !.pc = "track", !.before = before]]
           ELSE req' = [req EXCEPT ![r] = [@ EXCEPT !.pc = "done", !.status = 200,
                                                    !.before = before]]
    /\ UNCHANGED <<categoryDocs, overwrote, currentPage, envVars, pc, kind,
                   loopVars, countVars, started, snap, atStart, manual, cron>>

\* a trackDownload that rethrows: the catch of the route answers 500
trackDownloadThrows(r) ==
    /\ req[r].pc = "track"
    /\ \E ok \in BOOLEAN :
          req' = [req EXCEPT ![r] = [@ EXCEPT !.pc = "done",
                                              !.status = IF ok THEN 200 ELSE 500,
                                              !.tracked = IF ok THEN "ok" ELSE "failed"]]
    /\ UNCHANGED <<storeVars, currentPage, envVars, jobVars, manual, cron>>

\* await unsplash.trackDownload(...): the upstream GET succeeds or fails; a
\* failure is logged inside trackDownload, not thrown, and the route answers
\* success: true either way
trackDownload(r) ==
    /\ req[r].pc = "track"
    /\ \E ok \in BOOLEAN :
          req' = [req EXCEPT ![r] = [@ EXCEPT !.pc = "done",
                                              !.status = 200,
                                              !.tracked = IF ok THEN "ok" ELSE "failed"]]
    /\ UNCHANGED <<storeVars, currentPage, envVars, jobVars, manual, cron>>

(***************************************************************************)
(* insertWallpaper(wallpaperData): one findOneAndUpdate with upsert.  The  *)
(* record has the normalizers' fields; its id is the derived one or an id  *)
(* of the application's own (Wallpaper.js: "nano ID or from external       *)
(* source").                                                               *)
(***************************************************************************)
ManualInputs ==
    LET derived == {normalizePhoto("unsplash", Raw("unsplash", 1, "t2"), slug) :
                       slug \in Slugs}
    IN  derived \cup {[w EXCEPT !.id = "nano-1"] : w \in derived}

insertWallpaper(wallpaperData) ==
    /\ manual < MaxManual
    /\ manual' = manual + 1
    /\ catalog' = UpsertOne(catalog, ToDoc(wallpaperData)).db
    /\ overwrote' = (overwrote \/ Downloaded(catalog, ToDoc(wallpaperData)))
    /\ MarkDirty(0)
    /\ UNCHANGED <<categoryDocs, currentPage, envVars, pc, kind, loopVars,
                   countVars, started, snap, atStart, req, cron>>

(***************************************************************************)
(* services/cronJobs.js.  startCronJobs schedules a handler that awaits    *)
(* runFetchJob() inside try/catch.  runFetchJob calls getCategories()      *)
(* without await, advances both cursors, and then iterates the pending     *)
(* promise with for...of: that throws a TypeError, so the job ends there,  *)
(* rejected, before any provider call: fetchFromPexels and                 *)
(* fetchFromUnsplash are not reached, no page is asked of a provider and   *)
(* nothing is stored.  All of this is synchronous.                         *)
(***************************************************************************)
runFetchJob ==
    /\ cron.pc = "idle"
    /\ cron.runs < MaxRuns
    /\ currentPage' = [pexels |-> AdvancePage(currentPage.pexels, PexelsWindow),
                       unsplash |-> AdvancePage(currentPage.unsplash, UnsplashWindow)]
    /\ cron' = [pc |-> "rejected", runs |-> cron.runs + 1, asked |-> cron.asked]
    /\ UNCHANGED <<storeVars, envVars, jobVars, req, manual>>

\* catch (error) { console.error('Cron job failed:', error.message) }
CronCatch ==
    /\ cron.pc = "rejected"
    /\ cron' = [cron EXCEPT !.pc = "idle"]
    /\ UNCHANGED <<storeVars, currentPage, envVars, jobVars, req, manual>>

(***************************************************************************)
(* The specifications.  In all of them the database holds some of the      *)
(* default categories and the jobs, requests and cursors start idle.       *)
(***************************************************************************)
NoUpstream == [s \in Sources |-> [slug \in Slugs \cup {"featured"} |-> Failure]]

ServerSlugs == {defaultCategories[i].slug : i \in 1..ServerCategories}

\* no job is running
Quiet == \A d \in Cycles : pc[d] \in {"idle", "done"}

JobNext(c) ==
    \/ GetCategories(c)
    \/ Primary(c)
    \/ Secondary(c)
    \/ Exists(c)
    \/ BulkWrite(c)
    \/ Delay(c)
    \/ CountsFind(c)
    \/ CountsCount(c)
    \/ CountsUpdate(c)
    \/ Return(c)

(***************************************************************************)
(* Spec: the server with its ticks further apart than a job takes: a job   *)
(* starts when none is running.  Download requests and insertWallpaper     *)
(* calls interleave with the jobs, and the providers answer anything.      *)
(***************************************************************************)
Init ==
    /\ catalog = {}
    /\ categoryDocs = [slug \in ServerSlugs |-> 0]
    /\ upstream = NoUpstream
    /\ upstreamFixed = FALSE
    /\ ServerUp
    /\ IdleJobs
    /\ IdleRest

TickQuiet(c) == started < ServerJobs /\ Quiet /\ Tick(c)

FeaturedQuiet(c) == started < ServerJobs /\ Quiet /\ StartFeatured(c)

Next ==
    \/ \E c \in Cycles : TickQuiet(c) \/ FeaturedQuiet(c) \/ JobNext(c) \/ Popular(c)
    \/ \E r \in 1..ServerRequests : \/ \E id \in DownloadIds : DownloadRequest(r, id)
                                    \/ DownloadGetById(r)
                                    \/ incrementDownloadCount(r)
                                    \/ trackDownload(r)
    \/ \E data \in ManualInputs : insertWallpaper(data)

Spec == Init /\ [][Next]_vars

(***************************************************************************)
(* SpecDownloads: the download route under concurrent requests.  The       *)
(* catalog holds one record of each provider, not downloaded yet; the      *)
(* requests, for stored ids and for an id that is not stored, interleave   *)
(* at their awaits with each other and with insertWallpaper calls.         *)
(***************************************************************************)
StoredCatalog ==
    {InsertedDoc(ToDoc(normalizePhoto(s, Raw(s, 1, "t1"), "nature"))) : s \in Sources}

InitDownloads ==
    /\ catalog = StoredCatalog
    /\ categoryDocs = [slug \in ServerSlugs |-> 0]
    /\ upstream = NoUpstream
    /\ upstreamFixed = FALSE
    /\ ServerUp
    /\ IdleJobs
    /\ IdleRest

NextDownloads ==
    \/ \E r \in Requests : \/ \E id \in DownloadIds : DownloadRequest(r, id)
                           \/ DownloadGetById(r)
                           \/ incrementDownloadCount(r)
                           \/ trackDownload(r)
    \/ \E data \in ManualInputs : insertWallpaper(data)

SpecDownloads == InitDownloads /\ [][NextDownloads]_vars

(***************************************************************************)
(* SpecOverlap: node-cron fires the handler at every tick, whether or not  *)
(* the job of an earlier tick has returned.                                *)
(***************************************************************************)
NextOverlap ==
    \E c \in Cycles : Tick(c) \/ StartFeatured(c) \/ JobNext(c) \/ Popular(c)

SpecOverlap == Init /\ [][NextOverlap]_vars

(***************************************************************************)
(* SpecFixed: jobs one after the other against providers whose answers do  *)
(* not change.  Per category the primary answers, or fails and the         *)
(* secondary answers, or both fail; the photos of a category are a window  *)
(* of ids that overlaps the next category's, or one photo twice, or        *)
(* ScenarioPhotos distinct photos, or a photo without image URLs followed  *)
(* by a complete one.  The catalog starts empty or with a record of an     *)
(* earlier ingestion that has since been downloaded.                       *)
(***************************************************************************)
Shapes == {"window", "twice", "scenario", "malformed"}

Content(shape, source, slug) ==
    CASE shape = "window" -> Photos(source, InsertionRank(slug), MaxExtId, "t1")
      [] shape = "twice" -> <<Raw(source, InsertionRank(slug), "t1"),
                              Raw(source, InsertionRank(slug), "t1")>>
      [] shape = "scenario" -> Photos(source, 1, ScenarioPhotos, "t1")
      [] shape = "malformed" -> <<RawNoUrl(source, InsertionRank(slug), "t1"),
                                  Raw(source, InsertionRank(slug) + 1, "t1")>>

Patterns == {"primary", "fallback", "none"}

FixedUpstream(S, pattern, shape) ==
    [s \in Sources |->
        [slug \in Slugs \cup {"featured"} |->
            IF slug \notin S THEN Failure
            ELSE IF s = "unsplash" /\ pattern[slug] # "primary" THEN Failure
            ELSE IF s = "pexels" /\ pattern[slug] = "none" THEN Failure
            ELSE Success(Content(shape, s, slug))]]

EarlierRecord(source) ==
    [InsertedDoc(ToDoc(normalizePhoto(source, Raw(source, 1, "t0"), "nature")))
        EXCEPT !.downloads = 1]

InitCatalogs == {{}} \cup {{EarlierRecord(s)} : s \in Sources}

InitFixed ==
    /\ catalog \in InitCatalogs
    /\ \E S \in SUBSET Slugs :
          /\ categoryDocs = [slug \in S |-> 0]
          /\ \E pattern \in [S -> Patterns], shape \in Shapes :
                upstream = FixedUpstream(S, pattern, shape)
    /\ upstreamFixed = TRUE
    /\ ServerUp
    /\ IdleJobs
    /\ IdleRest

TickAfter(c) == Quiet /\ Tick(c)

NextFixed == \E c \in Cycles : TickAfter(c) \/ JobNext(c)

SpecFixed == InitFixed /\ [][NextFixed]_vars

(***************************************************************************)
(* SpecCron: the scheduler of services/cronJobs.js.                        *)
(***************************************************************************)
NextCron == runFetchJob \/ CronCatch

SpecCron == Init /\ [][NextCron]_vars

(***************************************************************************)
(* SpecAdapter: the exported operations of the provider adapters, called   *)
(* with any query of a category, page and perPage.  sent is the request    *)
(* the call sends upstream: the arguments go into params as they are.      *)
(***************************************************************************)
\* searchPhotos(query, category, page, perPage) of unsplash.js and pexels.js
searchPhotos(source, query, page, perPage) ==
    /\ sent' = [source |-> source, params |-> RequestParams(query, page, perPage)]
    /\ UNCHANGED <<storeVars, currentPage, upstream, upstreamFixed, host,
                   jobVars, req, manual, cron>>

\* getPopularPhotos(category, page, perPage) of unsplash.js: no query
getPopularPhotos(page, perPage) ==
    /\ sent' = [source |-> "unsplash", params |-> RequestParams("", page, perPage)]
    /\ UNCHANGED <<storeVars, currentPage, upstream, upstreamFixed, host,
                   jobVars, req, manual, cron>>

NextAdapter ==
    \E page \in 1..MaxPage, perPage \in 1..MaxPerPage :
        \/ \E source \in Sources, slug \in Slugs :
              searchPhotos(source, QueryOf(slug), page, perPage)
        \/ getPopularPhotos(page, perPage)

SpecAdapter == Init /\ [][NextAdapter]_vars

(***************************************************************************)
(* SpecStartup: the process from its start.  index.js connects to the      *)
(* database (then initializeDatabase seeds the default categories into an  *)
(* empty Category collection), schedules the tick handler and listens; the *)
(* catalog is empty.  Jobs are started by the ticks.                       *)
(***************************************************************************)
InitStartup ==
    /\ catalog = {}
    /\ categoryDocs \in {[slug \in S |-> 0] : S \in {{}, ServerSlugs}}
    /\ upstream = NoUpstream
    /\ upstreamFixed = FALSE
    /\ host = [db |-> "connecting", listening |-> FALSE]
    /\ IdleJobs
    /\ IdleRest

\* mongoose.connect(...).then(() => initializeDatabase())
initializeDatabase ==
    /\ host.db = "connecting"
    /\ host' = [host EXCEPT !.db = "ready"]
    /\ categoryDocs' = IF DOMAIN categoryDocs = {}
                       THEN [slug \in ServerSlugs |-> 0]
                       ELSE categoryDocs
    /\ UNCHANGED <<catalog, overwrote, currentPage, upstream, upstreamFixed, sent,
                   jobVars, req, manual, cron>>

\* the callback of app.listen: the banner and the API key warnings
Listen ==
    /\ ~host.listening
    /\ host' = [host EXCEPT !.listening = TRUE]
    /\ UNCHANGED <<storeVars, currentPage, upstream, upstreamFixed, sent,
                   jobVars, req, manual, cron>>

TickStartup(c) == host.db = "ready" /\ TickQuiet(c)

NextStartup ==
    \/ initializeDatabase
    \/ Listen
    \/ \E c \in Cycles : TickStartup(c) \/ JobNext(c)

SpecStartup == InitStartup /\ [][NextStartup]_vars

(***************************************************************************)
(* SpecHeal: jobs one after the other while insertWallpaper calls upsert   *)
(* documents at any moment, also between the awaits of                     *)
(* updateCategoryCounts.                                                   *)
(***************************************************************************)
NextHeal ==
    \/ \E c \in Cycles : TickAfter(c) \/ JobNext(c)
    \/ \E data \in ManualInputs : insertWallpaper(data)

SpecHeal == Init /\ [][NextHeal]_vars

(***************************************************************************)
(* SpecFaulty: the server with a store whose calls may raise and providers *)
(* that may never answer.  A tick starts a job when none is running and    *)
(* the process is alive.  SpecStall is SpecFaulty with fairness: a step    *)
(* that stays possible is eventually taken.                                *)
(***************************************************************************)
Alive == \A d \in Cycles : pc[d] # "exit"

Settled == \A d \in Cycles : pc[d] \in {"idle", "done", "failed"}

TickAlive(c) == started < ServerJobs /\ Alive /\ Settled /\ Tick(c)

FaultNext(c) ==
    \/ GetCategoriesRaises(c)
    \/ ExistsRaises(c)
    \/ BulkWriteRaises(c)
    \/ CountsRaises(c)
    \/ TaskFailed(c)
    \/ UnhandledRejection(c)
    \/ ProviderHangs(c)

NextFaulty == \E c \in Cycles : TickAlive(c) \/ JobNext(c) \/ FaultNext(c)

SpecFaulty == Init /\ [][NextFaulty]_vars

SpecStall == SpecFaulty /\ WF_vars(NextFaulty)

(***************************************************************************)
(* The properties.                                                         *)
(***************************************************************************)
SamePair(a, b) == a.external_id = b.external_id /\ a.source = b.source

LastOutcome(c) == outcome[c][Len(outcome[c])]

BothFailed(e) == e.primary = "failed" /\ e.secondary = "failed"

FellBack(e) == e.primary = "failed" /\ e.secondary = "ok"

\* the loop over the categories of job c has ended
LoopOver(c) ==
    /\ kind[c] = "all"
    /\ pc[c] \in {"countsFind", "countsCount", "countsUpdate", "return", "done"}

\* C1: no two distinct stored wallpaper documents carry the same
\* (source, external_id) pair, whatever jobs, insertWallpaper calls and
\* download requests have run.
C1_UniquePairs ==
    \A a \in catalog : \A b \in catalog : SamePair(a, b) => a = b

\* a job has stored records next to a document with an id of the
\* application's own
C1_Witness ==
    /\ \E d \in catalog : d._id = "nano-1"
    /\ Cardinality(catalog) >= 2
    /\ \E c \in Cycles : pc[c] = "done" /\ totalNew[c] > 0

\* C2: when a job has run right after another against the same provider
\* answers, the documents and the counts are what they were when the earlier
\* one returned, and no pair is stored twice.
C2_Idempotent ==
    \A c \in Cycles :
        (c > 1 /\ pc[c] = "done" /\ pc[c - 1] = "done") =>
            /\ catalog = snap[c - 1].catalog
            /\ categoryDocs = snap[c - 1].categoryDocs
            /\ snap[c] = snap[c - 1]
            /\ C1_UniquePairs

\* the second job has returned after a first one that stored records of
\* several categories
C2_Witness ==
    /\ pc[2] = "done"
    /\ totalNew[1] > 0
    /\ Len(cats[1]) >= 2
    /\ \E slug \in DOMAIN categoryDocs : categoryDocs[slug] > 0

\* C3: when updateCategoryCounts has completed and nobody else wrote while
\* it ran, every category's wallpaper_count is the number of documents whose
\* category is its slug.
C3_CountsExact ==
    \A c \in Cycles :
        (pc[c] = "return" /\ kind[c] = "all" /\ ~dirty[c]) =>
            \A slug \in DOMAIN categoryDocs :
                categoryDocs[slug] =
                    Cardinality({d \in catalog : d.category = slug})

\* counts were reconciled, undisturbed, over a catalog that has documents
\* of one category and none of another
C3_Witness ==
    \E c \in Cycles :
        /\ pc[c] = "return" /\ kind[c] = "all" /\ ~dirty[c]
        /\ Cardinality(catalog) >= 2
        /\ \E slug \in DOMAIN categoryDocs : categoryDocs[slug] > 0
        /\ \E slug \in DOMAIN categoryDocs : categoryDocs[slug] < Cardinality(catalog)

\* C4: at most one ingestion job is in progress at any time (a tick that
\* fires while a job runs starts none).
C4_OneCycleAtATime ==
    Cardinality({c \in Cycles : pc[c] \notin {"idle", "done"}}) <= 1

\* C5: each cursor is a page of its window, 1..10 for Pexels and 1..5 for
\* Unsplash, and after a multiple of window advances it is back at the page
\* it started from.
C5_CursorCycles ==
    /\ currentPage.pexels \in 1..PexelsWindow
    /\ currentPage.unsplash \in 1..UnsplashWindow
    /\ (cron.runs % PexelsWindow = 0 => currentPage.pexels = FirstPage)
    /\ (cron.runs % UnsplashWindow = 0 => currentPage.unsplash = FirstPage)

\* the Pexels cursor has gone round its window once
C5_Witness ==
    /\ cron.runs = PexelsWindow
    /\ currentPage.pexels = FirstPage
    /\ currentPage.unsplash = FirstPage

\* C6: when the primary provider failed for a category and the secondary
\* answered, the answered records that the catalog did not hold are stored
\* with the secondary's source, and their number is what the category
\* returned.
C6_Fallback ==
    \A c \in Cycles :
        (pc[c] = "delay" /\ kind[c] = "all" /\ FellBack(LastOutcome(c))) =>
            /\ \A i \in Fresh(seen[c], wallpapers[c]) :
                  \E d \in catalog :
                      /\ d._id = wallpapers[c][i].id
                      /\ d.source = "pexels"
                      /\ d.external_id = wallpapers[c][i].external_id
                      /\ d.category = LastOutcome(c).slug
            /\ LastOutcome(c).count = Cardinality(Fresh(seen[c], wallpapers[c]))

\* a category has been served by the fallback with records the catalog
\* did not hold
C6_Witness ==
    \E c \in Cycles :
        /\ pc[c] = "delay" /\ kind[c] = "all" /\ FellBack(LastOutcome(c))
        /\ Fresh(seen[c], wallpapers[c]) # {}
        /\ \E d \in catalog : d.source = "pexels" /\ d.downloads = 0

\* C7: once the loop over the categories has ended, every category has been
\* processed in order, and totalNew is the sum, over the categories for which
\* not both providers failed, of the number of answered records the catalog
\* did not hold; a category for which both failed counts 0.
C7_PartialFailure ==
    \A c \in Cycles :
        LoopOver(c) =>
            /\ Len(outcome[c]) = Len(cats[c])
            /\ \A i \in 1..Len(cats[c]) :
                  /\ outcome[c][i].slug = cats[c][i]
                  /\ outcome[c][i].count =
                        IF BothFailed(outcome[c][i]) THEN 0 ELSE outcome[c][i].fresh
            /\ totalNew[c] =
                  SumSeq([i \in 1..Len(cats[c]) |->
                             IF BothFailed(outcome[c][i]) THEN 0
                             ELSE outcome[c][i].fresh])

\* three categories, both providers failed for the second, the first and
\* the third brought new records
C7_Witness ==
    \E c \in Cycles :
        /\ LoopOver(c)
        /\ Len(cats[c]) = 3
        /\ BothFailed(outcome[c][2])
        /\ outcome[c][1].fresh > 0
        /\ outcome[c][3].fresh > 0
        /\ totalNew[c] = outcome[c][1].fresh + outcome[c][3].fresh

\* C8: a step that is not the increment of a download request leaves the
\* downloads of every stored document as they are.
C8_DownloadsFrame ==
    [][ \/ \E r \in Requests : req[r].pc = "increment" /\ req'[r].pc # "increment"
        \/ \A d \in catalog : \A e \in catalog' :
              e._id = d._id => e.downloads = d.downloads ]_vars

\* an upsert has updated a document that had been downloaded
C8_Witness ==
    /\ overwrote
    /\ \E d \in catalog : d.downloads > 0 /\ d.title = "t1"

\* C9, as claimed: after a category's processing, every stored document
\* whose pair the provider answered carries the answered title and URL.
C9_Refreshed ==
    \A c \in Cycles :
        (pc[c] = "delay" /\ kind[c] = "all" /\ ~BothFailed(LastOutcome(c))) =>
            \A i \in 1..Len(wallpapers[c]) : \A d \in catalog :
                SamePair(d, wallpapers[c][i]) =>
                    /\ d.title = wallpapers[c][i].title
                    /\ d.url_regular = wallpapers[c][i].url_regular

\* C9, amended: after a category's processing, every document that was
\* stored when the provider answered and whose pair was answered is stored
\* unchanged: the job filtered it out and did not write it.
C9_NotRefreshed ==
    \A c \in Cycles :
        (pc[c] = "delay" /\ kind[c] = "all" /\ ~BothFailed(LastOutcome(c))) =>
            \A i \in 1..Len(wallpapers[c]) : \A d \in seen[c] :
                SamePair(d, wallpapers[c][i]) => d \in catalog

\* a provider answered a record that was stored with another title
C9_Witness ==
    \E c \in Cycles :
        /\ pc[c] = "delay" /\ kind[c] = "all" /\ ~BothFailed(LastOutcome(c))
        /\ \E i \in 1..Len(wallpapers[c]) : \E d \in seen[c] :
              /\ SamePair(d, wallpapers[c][i])
              /\ d.title # wallpapers[c][i].title

\* the scenario of C10: the first job, the catalog empty, the one category
\* nature, the primary provider answering ScenarioPhotos distinct photos
C10_Scenario(c) ==
    /\ c = 1
    /\ pc[c] = "done"
    /\ cats[c] = <<"nature">>
    /\ seen[c] = {}
    /\ outcome[c][1].primary = "ok"
    /\ Len(wallpapers[c]) = ScenarioPhotos
    /\ Cardinality({wallpapers[c][i].external_id : i \in 1..Len(wallpapers[c])})
          = ScenarioPhotos

\* C10: after the scenario's job, ScenarioPhotos documents are stored,
\* nature's wallpaper_count is ScenarioPhotos, the secondary provider was
\* not called, and the primary provider's cursor has gone from 1 to 2.
C10_EndToEnd ==
    \A c \in Cycles :
        C10_Scenario(c) =>
            /\ Cardinality(catalog) = ScenarioPhotos
            /\ categoryDocs["nature"] = ScenarioPhotos
            /\ outcome[c][1].secondary = "none"
            /\ currentPage.unsplash = FirstPage + 1

\* what the scenario's job does bring about: everything but the cursor
C10_AllButCursor ==
    \A c \in Cycles :
        C10_Scenario(c) =>
            /\ Cardinality(catalog) = ScenarioPhotos
            /\ categoryDocs["nature"] = ScenarioPhotos
            /\ outcome[c][1].secondary = "none"
            /\ totalNew[c] = ScenarioPhotos

\* the processing of category i of job c ended in the catch of the for loop
Abandoned(c, i) ==
    /\ outcome[c][i].count = -1
    /\ (i < Len(outcome[c]) \/ pc[c] \notin {"primary", "secondary", "exists",
                                             "bulkWrite", "pending"})

\* C11: when a store call raised while a job processed a category, the job
\* calls no provider for a later category: the category that was abandoned
\* is the last one the job began.
C11_CycleAborted ==
    \A c \in Cycles : \A i \in 1..Len(outcome[c]) :
        Abandoned(c, i) => i = Len(outcome[c])

C13_StoredHaveUrls ==
    \A d \in catalog : d.url_regular # Null

\* the counts job c left when it returned are the numbers of documents of
\* each category the catalog held then
ExactAtReturn(c) ==
    \A slug \in DOMAIN snap[c].categoryDocs :
        snap[c].categoryDocs[slug] =
            Cardinality({d \in snap[c].catalog : d.category = slug})

\* C14: whatever upserts interleave with updateCategoryCounts, no
\* wallpaper_count is negative; and a run of updateCategoryCounts during
\* which no upsert happened leaves every wallpaper_count equal to the number
\* of documents of its category, also after a run that upserts disturbed.
C14_CountsSelfHeal ==
    /\ \A slug \in DOMAIN categoryDocs : categoryDocs[slug] >= 0
    /\ \A c \in Cycles :
          (pc[c] = "done" /\ kind[c] = "all" /\ ~dirty[c]) => ExactAtReturn(c)

\* an upsert disturbed the counts of the first job, which returned with a
\* wrong count; the second job, undisturbed, has put the counts right
C14_Witness ==
    /\ pc[1] = "done" /\ dirty[1] /\ ~ExactAtReturn(1)
    /\ pc[2] = "done" /\ ~dirty[2] /\ ExactAtReturn(2)
    /\ manual = MaxManual
    /\ snap[2].catalog # {}

\* the record job c is about to write passed the existence check, and its
\* pair has been stored since
Raced(c) ==
    /\ pc[c] = "bulkWrite"
    /\ wallpaperExists(catalog, newWallpapers[c][pos[c]].external_id,
                       newWallpapers[c][pos[c]].source)

\* the step of job c ends in the catch of its caller
Surfaced(c) ==
    IF kind[c] = "all" THEN idx'[c] = idx[c] + 1
    ELSE pc'[c] = "return" /\ totalNew'[c] = 0

\* C15: when the pair of the record a job writes has been stored by another
\* writer since the job's existence check, the write raises no error and
\* the catalog then holds exactly one document with that pair.
C15_RaceAbsorbed ==
    [][ \A c \in Cycles :
          (Raced(c) /\ <<pc[c], pos[c]>> # <<pc'[c], pos'[c]>>) =>
              /\ ~Surfaced(c)
              /\ Cardinality({d \in catalog' :
                                 SamePair(d, newWallpapers[c][pos[c]])}) = 1 ]_vars

\* C15 for the writers that derive the _id from the pair, as the jobs do:
\* the raced write updates the stored document
C15_SameIdAbsorbed ==
    [][ \A c \in Cycles :
          (/\ Raced(c)
           /\ findById(catalog, newWallpapers[c][pos[c]].id) # {}
           /\ <<pc[c], pos[c]>> # <<pc'[c], pos'[c]>>) =>
              /\ ~Surfaced(c)
              /\ Cardinality({d \in catalog' :
                                 SamePair(d, newWallpapers[c][pos[c]])}) = 1 ]_vars

\* job c has ended: returned, or rejected and seen by the scheduler or not
Ended(c) == pc[c] \in {"done", "failed", "exit"}

\* C16: every job that has started eventually ends, also when a provider
\* call never answers.
C16_Terminates ==
    \A c \in Cycles : (pc[c] = "getCategories") ~> Ended(c)

\* C17: once the process is up (connected and listening) an ingestion job
\* has been started, whether or not a tick has fired.
C17_EagerSeed ==
    (host.db = "ready" /\ host.listening) => started > 0

\* C18: the per_page of every request an adapter sends is at most the
\* provider's maximum, 30 for Unsplash and 80 for Pexels.
C18_PerPageClamped ==
    /\ sent.source = "unsplash" => sent.params.per_page <= UnsplashMaxPerPage
    /\ sent.source = "pexels" => sent.params.per_page <= PexelsMaxPerPage

\* C19: a download request whose upstream trackDownload call failed is
\* answered with success, and the increment it made is kept: the document's
\* downloads are above what they were before the request's increment.
C19_TrackFailureSwallowed ==
    \A r \in Requests :
        (req[r].pc = "done" /\ req[r].tracked = "failed") =>
            /\ req[r].status = 200
            /\ \E d \in findById(catalog, req[r].id) :
                  d.downloads >= req[r].before + 1

\* a download of a stored Unsplash record has been answered after its
\* trackDownload call failed
C19_Witness ==
    \E r \in Requests :
        /\ req[r].pc = "done" /\ req[r].tracked = "failed"
        /\ req[r].source = "unsplash"
        /\ \E d \in findById(catalog, req[r].id) : d.downloads = req[r].before + 1

\* the fallback call of category i of job c has been made
FallbackCalled(c, i) == outcome[c][i].secondary # "none"

RECURSIVE PageAfter(_, _)
PageAfter(n, window) ==
    IF n = 0 THEN FirstPage ELSE AdvancePage(PageAfter(n - 1, window), window)

\* C21: every started job has advanced each provider's cursor once, so the
\* cursors are where one advance per started job puts them, and every
\* primary provider call of a job asks for the page of the advanced cursor.
C21_CursorAdvancedAndUsed ==
    /\ currentPage.unsplash = PageAfter(started, UnsplashWindow)
    /\ currentPage.pexels = PageAfter(started, PexelsWindow)
    /\ \A c \in Cycles : \A i \in 1..Len(outcome[c]) :
          outcome[c][i].primaryReq.page = PageAfter(c, UnsplashWindow)

\* C22: a job makes the first provider call of a category only after a
\* pacing delay, or, for its first category, right after it has read the
\* categories: every step that brings a job to a primary provider call is
\* the end of the delay or of getCategories.
C22_DelayBetweenCategories ==
    [][ \A c \in Cycles :
          (pc'[c] = "primary" /\ pc[c] # "primary") =>
              pc[c] \in {"getCategories", "delay"} ]_vars

\* C23: the categories a job has begun are, in order, the first ones of the
\* categories by ascending name, and a job begins a category only when the
\* one before has returned its count: at most the last begun category is in
\* progress, and an earlier one that counted new records has them stored.
C23_SequentialByName ==
    \A c \in Cycles :
        /\ \A i \in 1..Len(cats[c]) : \A j \in 1..Len(cats[c]) :
              i < j => NameRank(NameOf(cats[c][i])) < NameRank(NameOf(cats[c][j]))
        /\ Len(outcome[c]) <= Len(cats[c])
        /\ \A i \in 1..Len(outcome[c]) :
              /\ outcome[c][i].slug = cats[c][i]
              /\ i < Len(outcome[c]) =>
                    /\ outcome[c][i].count >= 0
                    /\ outcome[c][i].count > 0 =>
                          \E d \in catalog : d.category = cats[c][i]

\* a job goes through three categories whose order by name is not the order
\* of their insertion, and is at the last one with the earlier ones stored
C23_Witness ==
    \E c \in Cycles :
        /\ Len(cats[c]) = 3
        /\ cats[c] # NaturalOrder(DOMAIN categoryDocs)
        /\ Len(outcome[c]) = 3
        /\ pc[c] = "exists"
        /\ outcome[c][1].count > 0
        /\ outcome[c][2].count > 0

\* C24: the total a job returns is the number of documents the job added:
\* the catalog it leaves has that many documents more than the catalog it
\* was started on (the jobs run one after another, nobody else writes).
C24_TotalIsGrowth ==
    \A c \in Cycles :
        (pc[c] = "done" /\ kind[c] = "all") =>
            totalNew[c] = Cardinality(snap[c].catalog) - Cardinality(atStart[c])

\* the _ids of the documents of db
IdsOf(db) == {d._id : d \in db}

\* C25: no step of a job, of updateCategoryCounts, of a download request or
\* of insertWallpaper removes a document: the _ids stored before the step
\* are stored after it.
C25_IdsOnlyGrow ==
    [][ IdsOf(catalog) \subseteq IdsOf(catalog') ]_vars

\* a job has returned, a download has been answered and insertWallpaper has
\* been called, over a catalog of several documents one of which was
\* rewritten after it had been downloaded
C25_Witness ==
    /\ Cardinality(IdsOf(catalog)) >= 2
    /\ \E c \in Cycles : pc[c] = "done" /\ totalNew[c] > 0
    /\ \E r \in Requests : req[r].pc = "done" /\ req[r].status = 200
    /\ manual = MaxManual
    /\ overwrote

\* the key derived from a record's pair: "{source}_{external_id}"
DerivedKey(r) == r.source \o "_" \o r.external_id

\* C26: every record a normalizer returned to a job has the id derived from
\* its pair, every document the jobs stored has that key as its _id, and
\* two stored documents have the same _id exactly when they have the same
\* pair.
C26_KeyIsDerived ==
    /\ \A c \in Cycles : \A i \in 1..Len(wallpapers[c]) :
          wallpapers[c][i].id = DerivedKey(wallpapers[c][i])
    /\ \A d \in catalog : d._id = DerivedKey(d)
    /\ \A a \in catalog : \A b \in catalog : (a._id = b._id) <=> SamePair(a, b)

\* the jobs have stored documents of both providers, with the same external
\* id under the two sources
C26_Witness ==
    /\ \E c \in Cycles : pc[c] = "done" /\ totalNew[c] > 0
    /\ \E a \in catalog : \E b \in catalog :
          /\ a.source = "unsplash" /\ b.source = "pexels"
          /\ a.external_id = b.external_id
          /\ a.title = "t1" /\ b.title = "t1"

\* C27: a run of runFetchJob fetches, filters, stores and returns the
\* number of records it stored: it does not end rejected.
C27_RunFetchJobReturns ==
    cron.pc # "rejected"

\* C29: in every run made so far the page of the advanced cursor has been
\* asked of each provider: page 2 in the first run, page 1 in run number
\* window.
C29_EveryPageAsked ==
    \A n \in 1..cron.runs :
        /\ PageAfter(n, PexelsWindow) \in cron.asked["pexels"]
        /\ PageAfter(n, UnsplashWindow) \in cron.asked["unsplash"]

\* the requests for id whose increment has been made
Incremented(id) ==
    {r \in Requests : req[r].id = id /\ req[r].pc \in {"track", "done"}
                         /\ req[r].status # 404}

\* C28: the downloads of every stored document are the number of download
\* requests for its id that have made their increment, however the requests
\* interleave; a request for an id that is not stored is answered 404, and
\* only such a request is.
C28_DownloadsCounted ==
    /\ \A d \in catalog : d.downloads = Cardinality(Incremented(d._id))
    /\ \A r \in Requests :
          req[r].pc = "done" =>
              (req[r].status = 404 <=> req[r].id \notin IdsOf(catalog))

\* all the requests were for the same stored record and have been answered,
\* and the other record has not been touched
C28_Witness ==
    /\ \A r \in Requests : req[r].pc = "done" /\ req[r].status = 200
                              /\ req[r].id = "unsplash_1"
    /\ \E d \in catalog : d._id = "unsplash_1" /\ d.downloads = MaxRequests
    /\ \E d \in catalog : d._id = "pexels_1" /\ d.downloads = 0

====
